---- MODULE Spec2Model ----
(***************************************************************************)
(* A model of lib/writeResources.js of gltf-pipeline: one invocation of    *)
(* writeResources(gltf, options).  Every image runs through its own chain  *)
(* of callbacks (temp-file write or WebP decode, basis encoder or JPEG     *)
(* re-encoder, read-back, hand-off to writeResource); the chains of        *)
(* distinct images interleave.  When all chains have resolved the shader   *)
(* pass, removeUnusedElements, mergeBuffers, the buffer pass and the       *)
(* texture pass run in that order.                                         *)
(***************************************************************************)
EXTENDS Integers, Sequences, FiniteSets, TLC

(***************************************************************************)
(* JavaScript values.  A property that may hold a number, a string or      *)
(* nothing is a record with a tag, so that a number stored where a string  *)
(* is expected can be represented and compared.                            *)
(***************************************************************************)
Undef == [t |-> "undef", n |-> 0, s |-> ""]
Num(k) == [t |-> "num", n |-> k, s |-> ""]
Str(x) == [t |-> "str", n |-> 0, s |-> x]
defined(v) == v.t # "undef"

\* An absent string property (name, resourceId, relativePath, options.name).
Nil == "<undefined>"

\* extras._pipeline.source: a Buffer, a JavaScript string, or undefined.
NoSource == [t |-> "undef", bytes |-> <<>>, text |-> ""]
Buf(b) == [t |-> "buf", bytes |-> b, text |-> ""]
Text(x, b) == [t |-> "str", bytes |-> b, text |-> x]

(***************************************************************************)
(* Bounds of the model.                                                    *)
(***************************************************************************)
MaxImages == 2
MaxShaders == 1
MaxBuffers == 2
MaxTextures == 1
MaxOrphans == 1

(***************************************************************************)
(* Image formats and the collaborators that read or produce bytes.         *)
(***************************************************************************)
PNG == ".png"
JPG == ".jpg"
WEBP == ".webp"
KTX2 == ".ktx2"
ImageExtensions == {PNG, JPG, WEBP, KTX2}

\* The leading bytes by which a format is recognised.
Magic(extension) ==
    CASE extension = PNG -> <<137, 80>>
      [] extension = JPG -> <<255, 216>>
      [] extension = WEBP -> <<82, 73>>
      [] extension = KTX2 -> <<171, 75>>

Payload(bytes) == SubSeq(bytes, 3, Len(bytes))

\* getImageExtension(data): the format is read from the bytes themselves.
getImageExtension(source) ==
    LET header == SubSeq(source.bytes, 1, 2)
    IN  CHOOSE e \in ImageExtensions : Magic(e) = header

\* What an external codec writes: the picture of `bytes` in the container
\* `extension`.
Encoded(extension, bytes) == Magic(extension) \o Payload(bytes)

\* mime.getType(extension), with the types defined at the top of the file.
mimeGetType(extension) ==
    CASE extension = PNG -> "image/png"
      [] extension = JPG -> "image/jpeg"
      [] extension = WEBP -> "image/webp"
      [] extension = KTX2 -> "image/ktx2"
      [] extension = ".glsl" -> "text/plain"
      [] extension = ".bin" -> "application/octet-stream"
      [] OTHER -> "null"

(***************************************************************************)
(* Buffer.toString('base64').                                              *)
(***************************************************************************)
Base64Alphabet == "ABCDEFGHIJKLMNOPQRSTUVWXYZabcdefghijklmnopqrstuvwxyz0123456789+/"

Base64Char(k) == SubSeq(Base64Alphabet, k + 1, k + 1)

RECURSIVE Base64(_)
Base64(bytes) ==
    IF Len(bytes) = 0 THEN ""
    ELSE IF Len(bytes) = 1 THEN
        Base64Char(bytes[1] \div 4) \o Base64Char((bytes[1] % 4) * 16) \o "=="
    ELSE IF Len(bytes) = 2 THEN
        Base64Char(bytes[1] \div 4)
        \o Base64Char((bytes[1] % 4) * 16 + bytes[2] \div 16)
        \o Base64Char((bytes[2] % 16) * 4) \o "="
    ELSE
        Base64Char(bytes[1] \div 4)
        \o Base64Char((bytes[1] % 4) * 16 + bytes[2] \div 16)
        \o Base64Char((bytes[2] % 16) * 4 + bytes[3] \div 64)
        \o Base64Char(bytes[3] % 64)
        \o Base64(SubSeq(bytes, 4, Len(bytes)))

\* source.toString('base64'): a Buffer is encoded; String.prototype.toString
\* ignores its argument and returns the string itself.
toStringBase64(source) ==
    IF source.t = "str" THEN source.text ELSE Base64(source.bytes)

(***************************************************************************)
(* The state of one invocation.                                            *)
(***************************************************************************)
VARIABLES
    options,             \* the options object, defaults applied
    images,              \* gltf.images: sequence of image objects
    shaders,             \* gltf.shaders
    programs,            \* gltf.programs
    buffers,             \* gltf.buffers
    textures,            \* gltf.textures
    bufferViews,         \* gltf.bufferViews
    extensionsRequired,  \* gltf.extensionsRequired
    writtenResourceMap,  \* resourceId -> target written for it
    separateResources,   \* options.separateResources: relative path -> source
    bufferStorage,       \* options.bufferStorage.buffer
    chain,               \* per image: where its promise chain stands
    tmp,                 \* per image: the temp files image-<uid><extension>
    phase,               \* where the body of writeResources stands
    cursor,              \* index of the next element of the running pass
    result,              \* how the promise of writeResources settled
    crashed,             \* an exception escaped a callback
    written,             \* log of appends to the buffer pool and puts into the sink
    handed,              \* images handed to writeResource, in hand-off order
    sniffed,             \* per image: the format sniffed when its chain started
    passes               \* log of the steps taken after the await

vars == <<options, images, shaders, programs, buffers, textures, bufferViews,
          extensionsRequired, writtenResourceMap, separateResources,
          bufferStorage, chain, tmp, phase, cursor, result, crashed, written,
          handed, sniffed, passes>>

(***************************************************************************)
(* NamingResolver: getProgram, getName, getRelativePath.                   *)
(***************************************************************************)
FRAGMENT_SHADER == 35632
VERTEX_SHADER == 35633

\* Indices are those of the JavaScript arrays: element i is at position i + 1.
At(seq, i) == seq[i + 1]
Indices(seq) == 0 .. (Len(seq) - 1)

\* ForEach.program returns the value of the first handler call that returns
\* one; no program referencing the shader leaves it undefined.
ReferencingPrograms(shaderIndex) ==
    {p \in Indices(programs) :
        \/ At(programs, p).fragmentShader = shaderIndex
        \/ At(programs, p).vertexShader = shaderIndex}

Min(S) == CHOOSE x \in S : \A y \in S : x <= y

getProgram(shaderIndex) ==
    IF ReferencingPrograms(shaderIndex) = {}
    THEN [found |-> FALSE, index |-> 0]
    ELSE [found |-> TRUE, index |-> Min(ReferencingPrograms(shaderIndex))]

\* getName: [threw, name].  Reading programInfo.program of an undefined
\* programInfo throws a TypeError.
getName(object, index, extension) ==
    IF object.name # Nil THEN [threw |-> FALSE, name |-> object.name]
    ELSE IF extension = ".bin" THEN
        [threw |-> FALSE,
         name |-> IF options.name # Nil THEN options.name \o ToString(index)
                  ELSE "buffer" \o ToString(index)]
    ELSE IF extension = ".glsl" THEN
        LET programInfo == getProgram(index)
            program == At(programs, programInfo.index)
            shaderType == IF object.type = FRAGMENT_SHADER THEN "FS" ELSE "VS"
            lower == IF object.type = FRAGMENT_SHADER THEN "fs" ELSE "vs"
        IN  IF ~programInfo.found THEN [threw |-> TRUE, name |-> ""]
            ELSE [threw |-> FALSE,
                  name |-> IF program.name # Nil THEN program.name \o shaderType
                           ELSE IF options.name # Nil
                           THEN options.name \o shaderType \o ToString(programInfo.index)
                           ELSE lower \o ToString(programInfo.index)]
    ELSE
        [threw |-> FALSE,
         name |-> IF options.name # Nil THEN options.name \o ToString(index)
                  ELSE "image" \o ToString(index)]

\* relativePath.replace(/\\/g, '/')
RECURSIVE ReplaceBackslashes(_)
ReplaceBackslashes(path) ==
    IF Len(path) = 0 THEN ""
    ELSE (IF SubSeq(path, 1, 1) = "\\" THEN "/" ELSE SubSeq(path, 1, 1))
         \o ReplaceBackslashes(SubSeq(path, 2, Len(path)))

\* The while loop of getRelativePath: append _1, _2, ... while the path is a
\* key of the sink.
RECURSIVE NumberedPath(_, _, _, _)
NumberedPath(name, extension, number, files) ==
    IF (name \o "_" \o ToString(number) \o extension) \in DOMAIN files
    THEN NumberedPath(name, extension, number + 1, files)
    ELSE name \o "_" \o ToString(number) \o extension

\* The candidate returned without looking into the sink.
FreePathUnchecked(name, extension, files) == name \o extension

FreePath(name, extension, files) ==
    IF (name \o extension) \in DOMAIN files
    THEN NumberedPath(name, extension, 1, files)
    ELSE name \o extension

\* getRelativePath: [threw, name, path].  Indexing an undefined
\* options.separateResources throws a TypeError.
getRelativePath(object, index, extension, sink) ==
    IF object.relativePath # Nil
    THEN [threw |-> FALSE, name |-> "",
          path |-> ReplaceBackslashes(object.relativePath)]
    ELSE LET named == getName(object, index, extension)
         IN  IF named.threw \/ ~sink.defined
             THEN [threw |-> TRUE, name |-> "", path |-> ""]
             ELSE [threw |-> FALSE, name |-> named.name,
                   path |-> FreePath(named.name, extension, sink.files)]

(***************************************************************************)
(* ResourceExternalizationStrategy: writeResource and its three paths.     *)
(* Each takes the object and the shared state st = [map, sink,             *)
(* bufferViews, written] and returns [object, st, threw].                  *)
(***************************************************************************)
\* A resource whose resourceId has an entry is not written again.
ReusedNever(resourceId, map) == FALSE

\* defined(resourceId) && defined(writtenResourceMap[resourceId])
Reused(resourceId, map) == resourceId # Nil /\ resourceId \in DOMAIN map

Put(f, key, value) ==
    [k \in DOMAIN f \cup {key} |-> IF k = key THEN value ELSE f[k]]

\* A data URI path that reuses the entry of the resource's resourceId.
writeDataUriReusing(object, extension, st) ==
    IF Reused(object.resourceId, st.map)
    THEN [object |-> [object EXCEPT !.bufferView = Undef,
                                    !.uri = st.map[object.resourceId]],
          st |-> st, threw |-> FALSE]
    ELSE [object |-> [object EXCEPT
                        !.bufferView = Undef,
                        !.uri = Str("data:" \o mimeGetType(extension) \o ";base64,"
                                    \o toStringBase64(object.source))],
          st |-> st, threw |-> FALSE]

writeDataUri(object, extension, st) ==
    [object |-> [object EXCEPT
                    !.bufferView = Undef,
                    !.uri = Str("data:" \o mimeGetType(extension) \o ";base64,"
                                \o toStringBase64(object.source))],
     st |-> st,
     threw |-> FALSE]

\* addBuffer(gltf, source) appends a bufferView over the bytes and returns
\* its index.
writeBufferView(object, st) ==
    LET cleared == [object EXCEPT !.uri = Undef]
        resourceId == object.resourceId
        bufferView == Num(Len(st.bufferViews))
    IN  IF Reused(resourceId, st.map)
        THEN [object |-> [cleared EXCEPT !.bufferView = st.map[resourceId]],
              st |-> st,
              threw |-> FALSE]
        ELSE [object |-> [cleared EXCEPT !.bufferView = bufferView],
              st |-> [st EXCEPT
                        !.bufferViews = Append(@, [orphan |-> FALSE,
                                                   bytes |-> object.source.bytes]),
                        !.written = Append(@, [via |-> "pool",
                                               resourceId |-> resourceId,
                                               target |-> bufferView,
                                               derived |-> FALSE,
                                               name |-> "", extension |-> "",
                                               before |-> {}]),
                        !.map = IF resourceId # Nil
                                THEN Put(@, resourceId, bufferView) ELSE @],
              threw |-> FALSE]

writeFile(object, index, extension, st) ==
    LET cleared == [object EXCEPT !.bufferView = Undef]
        resourceId == object.resourceId
        relativePath == getRelativePath(object, index, extension, st.sink)
        uri == Str(relativePath.path)
    IN  IF Reused(resourceId, st.map)
        THEN [object |-> [cleared EXCEPT !.uri = st.map[resourceId]],
              st |-> st,
              threw |-> FALSE]
        ELSE IF relativePath.threw
        THEN [object |-> cleared, st |-> st, threw |-> TRUE]
        ELSE [object |-> [cleared EXCEPT !.uri = uri],
              st |-> [st EXCEPT
                        !.sink = IF @.defined
                                 THEN [@ EXCEPT !.files =
                                          Put(@, relativePath.path, object.source)]
                                 ELSE @,
                        !.written = IF st.sink.defined
                                    THEN Append(@, [via |-> "sink",
                                                    resourceId |-> resourceId,
                                                    target |-> uri,
                                                    derived |-> object.relativePath = Nil,
                                                    name |-> relativePath.name,
                                                    extension |-> extension,
                                                    before |-> DOMAIN st.sink.files])
                                    ELSE @,
                        !.map = IF resourceId # Nil
                                THEN Put(@, resourceId, uri) ELSE @],
              threw |-> FALSE]

\* The data-URI branch taken on options.dataUris, not on the argument.
writeResourceByOption(object, index, separate, dataUris, extension, st) ==
    IF separate THEN writeFile(object, index, extension, st)
    ELSE IF options.dataUris THEN writeDataUri(object, extension, st)
    ELSE writeBufferView(object, st)

writeResource(object, index, separate, dataUris, extension, st) ==
    IF separate THEN writeFile(object, index, extension, st)
    ELSE IF dataUris THEN writeDataUri(object, extension, st)
    ELSE writeBufferView(object, st)

\* The shared state the strategy reads and writes.
Shared ==
    [map |-> writtenResourceMap, sink |-> separateResources,
     bufferViews |-> bufferViews, written |-> written]

SetShared(st) ==
    /\ writtenResourceMap' = st.map
    /\ separateResources' = st.sink
    /\ bufferViews' = st.bufferViews
    /\ written' = st.written

(***************************************************************************)
(* The promise of writeResources and of each image chain.                  *)
(***************************************************************************)
Pending == [state |-> "pending", image |-> -1, stage |-> ""]
Resolved == [state |-> "resolved", image |-> -1, stage |-> ""]
Rejected(i, stage) == [state |-> "rejected", image |-> i, stage |-> stage]

\* The chain of an image: the callback it waits for (pc), the extension its
\* current promise carries, and how the promise writeImage returned settled.
Waiting(pc, extension) ==
    [pc |-> pc, extension |-> extension, settled |-> Pending]

NoFiles == [e \in ImageExtensions |-> NoSource]

\* The promise of ForEach.imageAsync resolves once the promise of every
\* handler call resolved.
imageAsyncResolved == \A i \in Indices(images) : At(chain, i).settled.state = "resolved"

\* The body running on without awaiting the images.
ImagesNotAwaited == TRUE

\* await ForEach.imageAsync(...): the body continues once that promise resolved.
ImagesAwaited == imageAsyncResolved

\* A rejection of a chain rejects writeResources, unless it already settled.
Reject(i, stage) ==
    result' = IF result.state = "pending" /\ phase = "images"
              THEN Rejected(i, stage) ELSE result

SetChain(i, c) == chain' = [chain EXCEPT ![i + 1] = c]
SetTmp(i, f) == tmp' = [tmp EXCEPT ![i + 1] = f]
SetImage(i, image) == images' = [images EXCEPT ![i + 1] = image]

Document == <<images, shaders, programs, buffers, textures, bufferViews, extensionsRequired>>
Sinks == <<writtenResourceMap, separateResources, bufferStorage, written>>
Orchestrator == <<phase, cursor, result>>

(***************************************************************************)
(* writeResources is called: the defaults are applied, the map is created  *)
(* and writeImage starts the chain of every image.  The executor sniffs    *)
(* the format and starts the WebP decoder or the temp-file write.          *)
(***************************************************************************)
\* The test written against the extension without its dot.
DecodesWebPNoDot(extension) == extension = "webp" /\ options.decodeWebP

\* extension == '.webp' && options.decodeWebP
DecodesWebP(extension) == extension = WEBP /\ options.decodeWebP

StartChain(image) ==
    LET extension == getImageExtension(image.source)
    IN  IF DecodesWebP(extension)
        THEN Waiting("decode", PNG)
        ELSE Waiting("write", extension)

CallWriteResources ==
    /\ phase = "called"
    /\ ~crashed
    /\ phase' = "images"
    /\ chain' = [k \in DOMAIN images |-> StartChain(images[k])]
    /\ sniffed' = [k \in DOMAIN images |-> getImageExtension(images[k].source)]
    /\ UNCHANGED <<options, Document, Sinks, tmp, cursor, result, crashed, handed,
                   passes>>

(***************************************************************************)
(* The second then-handler of the chain: which encoder runs on the temp    *)
(* file image-<uid><extension>.                                            *)
(***************************************************************************)
EncodesBasis(extension) == options.encodeBasis /\ extension # "ktx2"

\* The two tests of the handler in the other order.
AfterFirstStageJpegFirst(extension) ==
    IF options.jpegCompressionRatio THEN Waiting("gm", extension)
    ELSE IF EncodesBasis(extension) THEN Waiting("exec", extension)
    ELSE Waiting("read", extension)

AfterFirstStage(extension) ==
    IF EncodesBasis(extension) THEN Waiting("exec", extension)
    ELSE IF options.jpegCompressionRatio THEN Waiting("gm", extension)
    ELSE Waiting("read", extension)

\* decoder.write(image-<uid>.png, callback)
DecodeDone(i) ==
    /\ ~crashed
    /\ At(chain, i).pc = "decode"
    /\ \E err \in BOOLEAN :
        IF err
        THEN /\ SetChain(i, [pc |-> "failed", extension |-> PNG,
                             settled |-> Rejected(i, "decode")])
             /\ Reject(i, "decode")
             /\ UNCHANGED tmp
        ELSE /\ SetTmp(i, [At(tmp, i) EXCEPT
                              ![PNG] = Buf(Encoded(PNG, At(images, i).source.bytes))])
             /\ SetChain(i, AfterFirstStage(PNG))
             /\ UNCHANGED result
    /\ UNCHANGED <<options, Document, Sinks, phase, cursor, crashed, handed,
                   sniffed, passes>>

\* fs.writeFile(image-<uid><extension>, source, callback)
WriteDone(i) ==
    /\ ~crashed
    /\ At(chain, i).pc = "write"
    /\ LET extension == At(chain, i).extension
       IN  \E err \in BOOLEAN :
            IF err
            THEN /\ SetChain(i, [pc |-> "failed", extension |-> extension,
                                 settled |-> Rejected(i, "write")])
                 /\ Reject(i, "write")
                 /\ UNCHANGED tmp
            ELSE /\ SetTmp(i, [At(tmp, i) EXCEPT ![extension] = At(images, i).source])
                 /\ SetChain(i, AfterFirstStage(extension))
                 /\ UNCHANGED result
    /\ UNCHANGED <<options, Document, Sinks, phase, cursor, crashed, handed,
                   sniffed, passes>>

\* exec(basisu -ktx2 ... image-<uid><extension>, callback): an error rejects
\* the chain, and the callback goes on to read image-<uid>.ktx2 either way.
ExecDone(i) ==
    /\ ~crashed
    /\ At(chain, i).pc = "exec"
    /\ LET extension == At(chain, i).extension
       IN  \E error \in BOOLEAN :
            IF error
            THEN /\ SetChain(i, [pc |-> "ktxread", extension |-> extension,
                                 settled |-> Rejected(i, "exec")])
                 /\ Reject(i, "exec")
                 /\ UNCHANGED tmp
            ELSE /\ SetTmp(i, [At(tmp, i) EXCEPT
                                  ![KTX2] = Buf(Encoded(KTX2, At(tmp, i)[extension].bytes))])
                 /\ SetChain(i, [At(chain, i) EXCEPT !.pc = "ktxread"])
                 /\ UNCHANGED result
    /\ UNCHANGED <<options, Document, Sinks, phase, cursor, crashed, handed,
                   sniffed, passes>>

\* fs.readFile fails on a missing file and may fail on an existing one.
ReadErrors(file) == IF file.t = "undef" THEN {TRUE} ELSE {TRUE, FALSE}

\* fs.readFile(image-<uid>.ktx2, callback) inside the exec callback: on an
\* error the callback rejects and still assigns the source, unlinks the
\* input file and resolves.  fs.unlinkSync of a missing file throws.
KtxReadDone(i) ==
    /\ ~crashed
    /\ At(chain, i).pc = "ktxread"
    /\ LET extension == At(chain, i).extension
           files == At(tmp, i)
           settled == At(chain, i).settled
       IN  \E err \in ReadErrors(files[KTX2]) :
            LET rejected == IF err /\ settled.state = "pending"
                            THEN Rejected(i, "ktxread") ELSE settled
                data == IF err THEN NoSource ELSE files[KTX2]
            IN  /\ SetImage(i, [At(images, i) EXCEPT !.source = data])
                /\ IF files[extension].t = "undef"
                   THEN /\ crashed' = TRUE
                        /\ SetChain(i, [pc |-> "failed", extension |-> extension,
                                        settled |-> rejected])
                        /\ UNCHANGED <<tmp, result>>
                   ELSE /\ SetTmp(i, [files EXCEPT ![extension] = NoSource])
                        /\ crashed' = crashed
                        /\ IF rejected.state = "rejected"
                           THEN /\ SetChain(i, [pc |-> "failed", extension |-> extension,
                                                settled |-> rejected])
                                /\ IF settled.state = "pending"
                                   THEN Reject(i, "ktxread") ELSE UNCHANGED result
                           ELSE /\ SetChain(i, Waiting("read", KTX2))
                                /\ UNCHANGED result
    /\ UNCHANGED <<options, shaders, programs, buffers, textures, bufferViews,
                   extensionsRequired, Sinks, phase, cursor, handed, sniffed, passes>>

\* gm(image-<uid><extension>).quality(q).write(image-<uid>.jpg, callback)
GmDone(i) ==
    /\ ~crashed
    /\ At(chain, i).pc = "gm"
    /\ LET extension == At(chain, i).extension
       IN  \E err \in BOOLEAN :
            IF err
            THEN /\ SetChain(i, [pc |-> "failed", extension |-> extension,
                                 settled |-> Rejected(i, "gm")])
                 /\ Reject(i, "gm")
                 /\ UNCHANGED tmp
            ELSE /\ SetTmp(i, [At(tmp, i) EXCEPT
                                  ![JPG] = Buf(Encoded(JPG, At(tmp, i)[extension].bytes))])
                 /\ SetChain(i, Waiting("read", JPG))
                 /\ UNCHANGED result
    /\ UNCHANGED <<options, Document, Sinks, phase, cursor, crashed, handed,
                   sniffed, passes>>

(***************************************************************************)
(* The last then-handler: re-sniff the final bytes and hand the image to   *)
(* writeResource.                                                          *)
(***************************************************************************)
StampMimeType(image, extension) ==
    IF defined(image.bufferView)
    THEN [image EXCEPT !.mimeType = Str(mimeGetType(extension))]
    ELSE image

\* addExtensionsRequired(gltf, 'KHR_texture_basisu') for a final .ktx2.
RequiredAfter(extension) ==
    IF extension = KTX2
    THEN extensionsRequired \cup {"KHR_texture_basisu"}
    ELSE extensionsRequired

\* The extension writeImage passes to writeResource.
FinalExtension(source) == getImageExtension(source)

HandOff(i, image) ==
    LET extension == FinalExtension(image.source)
        r == writeResource(image, i, options.separateTextures, options.dataUris,
                           extension, Shared)
    IN  /\ handed' = Append(handed, [image |-> i, extension |-> extension])
        /\ IF r.threw
           THEN /\ SetImage(i, r.object)
                /\ SetChain(i, [pc |-> "failed", extension |-> extension,
                                settled |-> Rejected(i, "handoff")])
                /\ Reject(i, "handoff")
                /\ UNCHANGED <<writtenResourceMap, separateResources, bufferViews,
                               written, extensionsRequired>>
           ELSE /\ SetImage(i, StampMimeType(r.object, extension))
                /\ SetShared(r.st)
                /\ extensionsRequired' = RequiredAfter(extension)
                /\ SetChain(i, [pc |-> "done", extension |-> extension,
                                settled |-> Resolved])
                /\ UNCHANGED result

\* fs.readFile(image-<uid><extension>, callback): on an error the callback
\* rejects and still assigns the source and unlinks the file.
ReadDone(i) ==
    /\ ~crashed
    /\ At(chain, i).pc = "read"
    /\ LET extension == At(chain, i).extension
           files == At(tmp, i)
       IN  \E err \in ReadErrors(files[extension]) :
            IF files[extension].t = "undef"
            THEN /\ crashed' = TRUE
                 /\ SetImage(i, [At(images, i) EXCEPT !.source = NoSource])
                 /\ SetChain(i, [pc |-> "failed", extension |-> extension,
                                 settled |-> Rejected(i, "read")])
                 /\ UNCHANGED <<tmp, result, handed, writtenResourceMap,
                                separateResources, bufferViews, written,
                                extensionsRequired>>
            ELSE /\ crashed' = crashed
                 /\ SetTmp(i, [files EXCEPT ![extension] = NoSource])
                 /\ IF err
                    THEN /\ SetImage(i, [At(images, i) EXCEPT !.source = NoSource])
                         /\ SetChain(i, [pc |-> "failed", extension |-> extension,
                                         settled |-> Rejected(i, "read")])
                         /\ Reject(i, "read")
                         /\ UNCHANGED <<handed, writtenResourceMap, separateResources,
                                        bufferViews, written, extensionsRequired>>
                    ELSE HandOff(i, [At(images, i) EXCEPT !.source = files[extension]])
    /\ UNCHANGED <<options, shaders, programs, buffers, textures, bufferStorage,
                   phase, cursor, sniffed, passes>>

(***************************************************************************)
(* The body of writeResources after the await.                             *)
(***************************************************************************)
Join ==
    /\ ~crashed
    /\ phase = "images"
    /\ result.state = "pending"
    /\ ImagesAwaited
    /\ phase' = "shaders"
    /\ cursor' = 0
    /\ UNCHANGED <<options, Document, Sinks, chain, tmp, result, crashed, handed,
                   sniffed, passes>>

\* A TypeError thrown in the body rejects the promise of writeResources.
Throw(stage) ==
    /\ result' = Rejected(-1, stage)
    /\ phase' = "aborted"

writeShader(shader, i, st) ==
    writeResource(shader, i, options.separateShaders, options.dataUris, ".glsl", st)

\* One iteration of ForEach.shader.
WriteShader ==
    /\ ~crashed
    /\ phase = "shaders"
    /\ cursor < Len(shaders)
    /\ LET r == writeShader(At(shaders, cursor), cursor, Shared)
       IN  IF r.threw
           THEN /\ shaders' = [shaders EXCEPT ![cursor + 1] = r.object]
                /\ Throw("shaders")
                /\ UNCHANGED <<cursor, writtenResourceMap, separateResources,
                               bufferViews, written>>
           ELSE /\ shaders' = [shaders EXCEPT ![cursor + 1] = r.object]
                /\ SetShared(r.st)
                /\ cursor' = cursor + 1
                /\ UNCHANGED <<phase, result>>
    /\ passes' = Append(passes, "shader")
    /\ UNCHANGED <<options, images, programs, buffers, textures, extensionsRequired,
                   bufferStorage, chain, tmp, crashed, handed, sniffed>>

\* removeUnusedElements(gltf, ['accessor', 'bufferView', 'buffer']): the
\* bufferViews nothing refers to are dropped and the references renumbered.
OrphansBefore(k) ==
    Cardinality({j \in 1 .. Len(bufferViews) : j <= k /\ bufferViews[j].orphan})

Renumbered(object) ==
    IF object.bufferView.t = "num" /\ object.bufferView.n < Len(bufferViews)
    THEN [object EXCEPT !.bufferView = Num(@.n - OrphansBefore(@.n))]
    ELSE object

RemoveUnusedElements ==
    /\ ~crashed
    /\ phase = "shaders"
    /\ cursor = Len(shaders)
    /\ bufferViews' = SelectSeq(bufferViews, LAMBDA b : ~b.orphan)
    /\ images' = [k \in DOMAIN images |-> Renumbered(images[k])]
    /\ shaders' = [k \in DOMAIN shaders |-> Renumbered(shaders[k])]
    /\ phase' = "merge"
    /\ passes' = Append(passes, "removeUnusedElements")
    /\ UNCHANGED <<options, programs, buffers, textures, extensionsRequired,
                   writtenResourceMap, separateResources, bufferStorage, written,
                   chain, tmp, cursor, result, crashed, handed, sniffed>>

\* mergeBuffers(gltf, options.name) leaves the buffers the buffer pass then
\* writes: at most MaxBuffers of them, named or not, with or without a
\* resourceId.
\* Buffers that carry the same resourceId hold the same bytes.
BufferSource(k, resourceId) ==
    IF resourceId # Nil THEN Buf(<<5, 6, 7, 8>>)
    ELSE IF k = 1 THEN Buf(<<1>>) ELSE Buf(<<2, 3>>)

MergedBuffer(k, name, resourceId) ==
    [name |-> name, resourceId |-> resourceId, relativePath |-> Nil,
     source |-> BufferSource(k, resourceId), uri |-> Undef, bufferView |-> Undef]

MergedBuffers ==
    {[k \in 1 .. n |-> kind] : n \in 0 .. MaxBuffers, kind \in {"named", "tagged", "plain"}}

MergeBuffers ==
    /\ ~crashed
    /\ phase = "merge"
    /\ \E shape \in MergedBuffers :
        buffers' = [k \in DOMAIN shape |->
                      MergedBuffer(k, IF shape[k] = "named" THEN "a" ELSE Nil,
                                   IF shape[k] = "tagged" THEN "r" ELSE Nil)]
    /\ phase' = "buffers"
    /\ cursor' = 0
    /\ passes' = Append(passes, "mergeBuffers")
    /\ UNCHANGED <<options, images, shaders, programs, textures, bufferViews,
                   extensionsRequired, Sinks, chain, tmp, result, crashed, handed,
                   sniffed>>

\* The combined buffer replaced by the bytes of the buffer at hand.
writeBufferStorageOverwriting(buffer, storage) ==
    [storage EXCEPT !.buffer = Buf(buffer.source.bytes)]

\* writeBufferStorage: the bytes are appended to options.bufferStorage.buffer.
writeBufferStorage(buffer, storage) ==
    [storage EXCEPT !.buffer =
        Buf((IF defined(@) THEN @.bytes ELSE <<>>) \o buffer.source.bytes)]

StoresBuffers == bufferStorage.defined /\ ~options.separateBuffers

\* One iteration of ForEach.buffer: writeBuffer.
WriteBuffer ==
    /\ ~crashed
    /\ phase = "buffers"
    /\ cursor < Len(buffers)
    /\ IF StoresBuffers
       THEN /\ bufferStorage' = writeBufferStorage(At(buffers, cursor), bufferStorage)
            /\ cursor' = cursor + 1
            /\ UNCHANGED <<buffers, writtenResourceMap, separateResources,
                           bufferViews, written, phase, result>>
       ELSE LET r == writeResource(At(buffers, cursor), cursor,
                                   options.separateBuffers, TRUE, ".bin", Shared)
            IN  /\ buffers' = [buffers EXCEPT ![cursor + 1] = r.object]
                /\ UNCHANGED bufferStorage
                /\ IF r.threw
                   THEN /\ Throw("buffers")
                        /\ UNCHANGED <<cursor, writtenResourceMap, separateResources,
                                       bufferViews, written>>
                   ELSE /\ SetShared(r.st)
                        /\ cursor' = cursor + 1
                        /\ UNCHANGED <<phase, result>>
    /\ passes' = Append(passes, "buffer")
    /\ UNCHANGED <<options, images, shaders, programs, textures, extensionsRequired,
                   chain, tmp, crashed, handed, sniffed>>

\* ForEach.texture: with encodeBasis the extensions object of every texture
\* is replaced by one holding KHR_texture_basisu alone.  Then return gltf.
BasisExtensions(texture) ==
    [names |-> {"KHR_texture_basisu"}, basisuSource |-> texture.source]

writeTexture(texture) ==
    IF options.encodeBasis
    THEN [texture EXCEPT !.extensions = BasisExtensions(texture)]
    ELSE texture

TexturePass ==
    /\ ~crashed
    /\ phase = "buffers"
    /\ cursor = Len(buffers)
    /\ textures' = [k \in DOMAIN textures |-> writeTexture(textures[k])]
    /\ phase' = "returned"
    /\ result' = Resolved
    /\ passes' = Append(passes, "textures")
    /\ UNCHANGED <<options, images, shaders, programs, buffers, bufferViews,
                   extensionsRequired, Sinks, chain, tmp, cursor, crashed, handed,
                   sniffed>>

(***************************************************************************)
(* The inputs of an invocation: the options and the document.              *)
(***************************************************************************)
Options(flags, transcode, name) ==
    [separateBuffers |-> "separateBuffers" \in flags,
     separateTextures |-> "separateTextures" \in flags,
     separateShaders |-> "separateShaders" \in flags,
     dataUris |-> "dataUris" \in flags,
     encodeBasis |-> "encodeBasis" \in transcode,
     decodeWebP |-> "decodeWebP" \in transcode,
     jpegCompressionRatio |-> "jpegCompressionRatio" \in transcode,
     name |-> name]

\* An image read from a GLB still carries the bufferView it was read from.
Image(format, resourceId, name, relativePath, bufferView) ==
    [name |-> name, resourceId |-> resourceId, relativePath |-> relativePath,
     source |-> Buf(Magic(format) \o <<7>>), uri |-> Undef,
     bufferView |-> bufferView, mimeType |-> Undef]

\* A shader source is the text of the shader, or a Buffer holding it.
ShaderText == Text("a;", <<97, 59>>)
ShaderBytes == Buf(<<97, 59>>)

Shader(source, type, resourceId, name, bufferView) ==
    [name |-> name, resourceId |-> resourceId, relativePath |-> Nil,
     source |-> source, type |-> type, uri |-> Undef, bufferView |-> bufferView]

Program(name, fragmentShader, vertexShader) ==
    [name |-> name, fragmentShader |-> fragmentShader, vertexShader |-> vertexShader]

\* A texture: its source image (or none) and its extensions object.
Texture(source, names) ==
    [source |-> source, extensions |-> [names |-> names, basisuSource |-> Undef]]

Orphans(n) == [k \in 1 .. n |-> [orphan |-> TRUE, bytes |-> <<0>>]]
StaleBufferView(n) == IF n > 0 THEN Num(0) ELSE Undef

\* Documents whose elements of a kind are alike: the images have the same
\* format, the same resourceId or none, the same explicit name or path or none.
Images(n, format, resourceId, identity, orphans) ==
    [k \in 1 .. n |->
        Image(format, resourceId,
              IF identity = "named" THEN "a" ELSE Nil,
              IF identity = "path" THEN "dir\\t" \o format ELSE Nil,
              StaleBufferView(orphans))]

Shaders(n, source, type, resourceId, name, orphans) ==
    [k \in 1 .. n |-> Shader(source, type, resourceId, name, StaleBufferView(orphans))]

\* The programs of a document: none, or one that holds shader 0 in a slot.
ProgramShapes == {"none", "unnamed", "named"}

Programs(shape, slot) ==
    IF shape = "none" THEN <<>>
    ELSE <<Program(IF shape = "named" THEN "main" ELSE Nil,
                   IF slot = FRAGMENT_SHADER THEN 0 ELSE -1,
                   IF slot = VERTEX_SHADER THEN 0 ELSE -1)>>

\* Textures of image 0 (of no image in a document without images), each
\* carrying another extension already.
Textures(n, nImages) ==
    [k \in 1 .. n |->
        Texture(IF nImages > 0 THEN Num(0) ELSE Undef, {"KHR_texture_transform"})]

\* options.bufferStorage: undefined, or an object whose buffer is undefined
\* or holds bytes already.
Storages ==
    {[defined |-> FALSE, buffer |-> NoSource],
     [defined |-> TRUE, buffer |-> NoSource],
     [defined |-> TRUE, buffer |-> Buf(<<9>>)]}

NoStorage == [defined |-> FALSE, buffer |-> NoSource]

\* options.separateResources: undefined, an empty object, or an object that
\* holds a file already.
NoSink == [defined |-> FALSE, files |-> <<>>]
EmptySink == [defined |-> TRUE, files |-> <<>>]
HeldSink == [defined |-> TRUE, files |-> [path \in {"a_1.png"} |-> Buf(<<9>>)]]

Input(opts, sink, storage, imgs, shds, progs, texs, orphans) ==
    [options |-> opts, sink |-> sink, storage |-> storage, images |-> imgs,
     shaders |-> shds, programs |-> progs, textures |-> texs, orphans |-> orphans]

StrategyFlags == SUBSET {"separateTextures", "separateShaders", "dataUris"}
TranscodeFlags == SUBSET {"encodeBasis", "decodeWebP", "jpegCompressionRatio"}

\* Every combination of the externalization flags of images and shaders and
\* of resourceId sharing, with and without a sink, on images that are not
\* transcoded.
StrategyInputs ==
    {Input(Options(flags, {}, Nil), sink, NoStorage,
           Images(n, PNG, rid, identity, MaxOrphans),
           Shaders(m, source, FRAGMENT_SHADER, shaderRid, "s", MaxOrphans),
           <<>>, <<>>, MaxOrphans) :
        flags \in StrategyFlags, sink \in {NoSink, EmptySink},
        n \in 0 .. MaxImages, rid \in {Nil, "r"}, identity \in {"unnamed", "path"},
        m \in 0 .. MaxShaders, source \in {ShaderText, ShaderBytes},
        shaderRid \in {Nil, "r"}}

\* Every combination of the transcode options on every image format, the
\* images written in each of the three representations.
TranscodeInputs ==
    {Input(Options(flags, transcode, Nil), EmptySink, NoStorage,
           Images(n, format, Nil, identity, 0), <<>>, <<>>,
           Textures(t, n), 0) :
        flags \in {{}, {"dataUris"}, {"separateTextures"}},
        transcode \in TranscodeFlags,
        n \in 0 .. MaxImages, format \in ImageExtensions,
        identity \in {"unnamed", "path"}, t \in 0 .. MaxTextures}

\* Everything written as separate files: the names and paths derived.
NamingInputs ==
    {Input(Options({"separateBuffers", "separateTextures", "separateShaders"}, {}, name),
           sink, NoStorage,
           Images(n, PNG, Nil, identity, 0),
           Shaders(m, ShaderText, type, Nil, shaderName, 0),
           Programs(shape, slot), <<>>, 0) :
        name \in {Nil, "m"}, sink \in {EmptySink, HeldSink},
        n \in 0 .. MaxImages, identity \in {"unnamed", "named", "path"},
        m \in 0 .. MaxShaders, type \in {FRAGMENT_SHADER, VERTEX_SHADER},
        shaderName \in {Nil, "s"}, shape \in ProgramShapes,
        slot \in {FRAGMENT_SHADER, VERTEX_SHADER}}

\* The buffer pass alone: every combination of its flags and sinks.
BufferInputs ==
    {Input(Options(flags, {}, Nil), sink, storage, <<>>, <<>>, <<>>, <<>>, 0) :
        flags \in SUBSET {"separateBuffers", "dataUris"},
        sink \in {NoSink, EmptySink}, storage \in Storages}

Inputs == StrategyInputs \cup TranscodeInputs \cup NamingInputs \cup BufferInputs

\* The state when writeResources(gltf, options) is called on an input.
Start(in) ==
    /\ options = in.options
    /\ images = in.images
    /\ shaders = in.shaders
    /\ programs = in.programs
    /\ textures = in.textures
    /\ buffers = <<>>
    /\ bufferViews = Orphans(in.orphans)
    /\ extensionsRequired = {}
    /\ writtenResourceMap = <<>>
    /\ separateResources = in.sink
    /\ bufferStorage = in.storage
    /\ chain = [k \in DOMAIN in.images |-> Waiting("idle", "")]
    /\ tmp = [k \in DOMAIN in.images |-> NoFiles]
    /\ phase = "called"
    /\ cursor = 0
    /\ result = Pending
    /\ crashed = FALSE
    /\ written = <<>>
    /\ handed = <<>>
    /\ sniffed = [k \in DOMAIN in.images |-> ""]
    /\ passes = <<>>

Init == \E in \in Inputs : Start(in)

Next ==
    \/ CallWriteResources
    \/ \E i \in Indices(images) : DecodeDone(i)
    \/ \E i \in Indices(images) : WriteDone(i)
    \/ \E i \in Indices(images) : ExecDone(i)
    \/ \E i \in Indices(images) : KtxReadDone(i)
    \/ \E i \in Indices(images) : GmDone(i)
    \/ \E i \in Indices(images) : ReadDone(i)
    \/ Join
    \/ WriteShader
    \/ RemoveUnusedElements
    \/ MergeBuffers
    \/ WriteBuffer
    \/ TexturePass

Spec == Init /\ [][Next]_vars

(***************************************************************************)
(* Vocabulary of the properties.                                           *)
(***************************************************************************)
Returned == result.state = "resolved"

Resources ==
    {[kind |-> "image", index |-> i, object |-> At(images, i)] : i \in Indices(images)}
    \cup {[kind |-> "shader", index |-> i, object |-> At(shaders, i)] : i \in Indices(shaders)}
    \cup {[kind |-> "buffer", index |-> i, object |-> At(buffers, i)] : i \in Indices(buffers)}

\* The representation the flags select for a resource of a kind.
PathOf(kind) ==
    IF kind = "buffer" THEN
        IF StoresBuffers THEN "storage"
        ELSE IF options.separateBuffers THEN "file" ELSE "dataUri"
    ELSE IF kind = "image" THEN
        IF options.separateTextures THEN "file"
        ELSE IF options.dataUris THEN "dataUri" ELSE "bufferView"
    ELSE
        IF options.separateShaders THEN "file"
        ELSE IF options.dataUris THEN "dataUri" ELSE "bufferView"

Externalized == {x \in Resources : PathOf(x.kind) # "storage"}

Sharing(resourceId) == {x \in Externalized : x.object.resourceId = resourceId}

ResourceIds == {x.object.resourceId : x \in Externalized} \ {Nil}

SameTarget(a, b) ==
    /\ a.object.uri = b.object.uri
    /\ a.object.bufferView = b.object.bufferView

WritesFor(resourceId) ==
    Cardinality({k \in DOMAIN written : written[k].resourceId = resourceId})

HandedImages == {handed[k].image : k \in DOMAIN handed}

(***************************************************************************)
(* C1 as stated: after writeResources resolves, the resources that share a *)
(* resourceId have identical targets, and their bytes were written exactly *)
(* once (one append to the buffer pool or one entry put in the sink).      *)
(***************************************************************************)
C1_SharedWrittenOnce ==
    Returned =>
        \A r \in ResourceIds :
            Cardinality(Sharing(r)) >= 2 =>
                /\ \A a, b \in Sharing(r) : SameTarget(a, b)
                /\ WritesFor(r) = 1

(***************************************************************************)
(* C1 amended: the resources that share a resourceId and are all written   *)
(* through the same deduplicating path (all as bufferViews, or all as      *)
(* separate files with a sink supplied) have identical targets and their   *)
(* bytes were written exactly once.                                        *)
(***************************************************************************)
AllThrough(resourceId, path) == \A x \in Sharing(resourceId) : PathOf(x.kind) = path

Deduplicated(resourceId) ==
    \/ AllThrough(resourceId, "bufferView")
    \/ AllThrough(resourceId, "file") /\ separateResources.defined

C1_DeduplicatedWrittenOnce ==
    Returned =>
        \A r \in ResourceIds :
            (Cardinality(Sharing(r)) >= 2 /\ Deduplicated(r)) =>
                /\ \A a, b \in Sharing(r) : SameTarget(a, b)
                /\ WritesFor(r) = 1

\* Two images sharing a resourceId, the second one handed over first, both
\* pointing at the one bufferView appended for them.
C1_Witness ==
    /\ Returned
    /\ Len(images) >= 2
    /\ Len(handed) >= 2
    /\ handed[1].image = 1
    /\ At(images, 0).resourceId = "r"
    /\ At(images, 1).resourceId = "r"
    /\ PathOf("image") = "bufferView"
    /\ At(images, 0).bufferView.t = "num"
    /\ WritesFor("r") = 1

(***************************************************************************)
(* C2: after writeResources resolves, every externalized resource holds    *)
(* exactly one of uri (a string) or bufferView (an integer), never both    *)
(* and never neither.                                                      *)
(***************************************************************************)
C2_ExactlyOneTarget ==
    Returned =>
        \A x \in Externalized :
            \/ x.object.uri.t = "str" /\ x.object.bufferView.t = "undef"
            \/ x.object.uri.t = "undef" /\ x.object.bufferView.t = "num"

(***************************************************************************)
(* C3: with the separate flag of a kind set, after writeResources resolves *)
(* every resource of that kind has a uri that is a relative path and a key *)
(* of the sink, and has no bufferView.                                     *)
(***************************************************************************)
StartsWith(string, prefix) ==
    Len(string) >= Len(prefix) /\ SubSeq(string, 1, Len(prefix)) = prefix

EndsWith(string, suffix) ==
    /\ Len(string) >= Len(suffix)
    /\ SubSeq(string, Len(string) - Len(suffix) + 1, Len(string)) = suffix

C3_SeparateUriInSink ==
    Returned =>
        \A x \in Externalized :
            PathOf(x.kind) = "file" =>
                /\ x.object.uri.t = "str"
                /\ ~StartsWith(x.object.uri.s, "data:")
                /\ separateResources.defined
                /\ x.object.uri.s \in DOMAIN separateResources.files
                /\ x.object.bufferView.t = "undef"

(***************************************************************************)
(* C4: with dataUris set and no separate flag, after writeResources        *)
(* resolves every externalized resource has the uri                        *)
(* data:<mime>;base64,<base64 of its final bytes> and no bufferView.       *)
(***************************************************************************)
ExtensionOf(x) ==
    IF x.kind = "image" THEN getImageExtension(x.object.source)
    ELSE IF x.kind = "shader" THEN ".glsl" ELSE ".bin"

C4_DataUriIsBase64 ==
    (/\ Returned
     /\ options.dataUris
     /\ ~options.separateBuffers
     /\ ~options.separateTextures
     /\ ~options.separateShaders) =>
        \A x \in Externalized :
            /\ x.object.uri = Str("data:" \o mimeGetType(ExtensionOf(x)) \o ";base64,"
                                  \o Base64(x.object.source.bytes))
            /\ x.object.bufferView.t = "undef"

(***************************************************************************)
(* C5: when a stage of an image's chain fails (temp-file write, WebP       *)
(* decode, basis encoder, JPEG re-encoder, read-back), that image is never *)
(* handed to writeResource, writeResources rejects with the error of a     *)
(* failed chain, and none of the later passes runs.                        *)
(***************************************************************************)
StageFailed(i) ==
    /\ At(chain, i).settled.state = "rejected"
    /\ At(chain, i).settled.stage \in {"write", "decode", "exec", "ktxread", "gm", "read"}

C5_FailureRejects ==
    \A i \in Indices(images) :
        (chain # <<>> /\ StageFailed(i)) =>
            /\ i \notin HandedImages
            /\ result.state = "rejected"
            /\ \E j \in Indices(images) : At(chain, j).settled = result
            /\ passes = <<>>

(***************************************************************************)
(* C6: no shader is externalized, neither collaborator is invoked and no   *)
(* buffer is written or stored until every image has been handed to        *)
(* writeResource; and the steps after the await run in the order shader    *)
(* pass, removeUnusedElements, mergeBuffers, buffer pass, texture pass.    *)
(***************************************************************************)
Rank(step) ==
    CASE step = "shader" -> 1
      [] step = "removeUnusedElements" -> 2
      [] step = "mergeBuffers" -> 3
      [] step = "buffer" -> 4
      [] step = "textures" -> 5

Count(step) == Cardinality({k \in DOMAIN passes : passes[k] = step})

C6_PassesAfterImages ==
    /\ passes # <<>> =>
        \A i \in Indices(images) :
            /\ i \in HandedImages
            /\ At(chain, i).pc = "done"
    /\ \A j, k \in DOMAIN passes : j < k => Rank(passes[j]) <= Rank(passes[k])
    /\ Count("buffer") > 0 =>
        /\ Count("shader") = Len(shaders)
        /\ Count("removeUnusedElements") = 1
        /\ Count("mergeBuffers") = 1
    /\ passes = <<>> =>
        /\ buffers = <<>>
        /\ \A k \in DOMAIN written : written[k].extension \notin {".glsl", ".bin"}

\* Two images, the second handed over first, and the buffer pass under way.
C6_Witness ==
    /\ Len(images) = 2
    /\ Len(handed) = 2
    /\ handed[1].image = 1
    /\ Len(shaders) = 1
    /\ Count("buffer") = 2

(***************************************************************************)
(* C7: after writeResources resolves with encodeBasis set, every texture   *)
(* carries KHR_texture_basisu with its own source, and the document lists  *)
(* KHR_texture_basisu as required.                                         *)
(***************************************************************************)
C7_BasisuRequired ==
    (Returned /\ options.encodeBasis) =>
        \A k \in DOMAIN textures :
            /\ "KHR_texture_basisu" \in textures[k].extensions.names
            /\ textures[k].extensions.basisuSource = textures[k].source
            /\ "KHR_texture_basisu" \in extensionsRequired

(***************************************************************************)
(* C8: an image sniffed as WebP, with decodeWebP set, is never handed to   *)
(* writeResource with the WebP extension, and is never written under a     *)
(* derived WebP path, a WebP data URI or the WebP mimeType.                *)
(***************************************************************************)
C8_DecodedNeverWebP ==
    \A k \in DOMAIN handed :
        LET i == handed[k].image
            image == At(images, i)
        IN  (sniffed[i + 1] = WEBP /\ options.decodeWebP) =>
                /\ handed[k].extension # WEBP
                /\ image.mimeType # Str(mimeGetType(WEBP))
                /\ image.uri.t = "str" =>
                    /\ image.relativePath = Nil => ~EndsWith(image.uri.s, WEBP)
                    /\ ~StartsWith(image.uri.s, "data:" \o mimeGetType(WEBP))

\* A WebP image decoded to PNG and written under a derived path.
C8_Witness ==
    \E k \in DOMAIN handed :
        /\ sniffed[handed[k].image + 1] = WEBP
        /\ options.decodeWebP
        /\ handed[k].extension = PNG
        /\ At(images, handed[k].image).uri = Str("image0.png")

(***************************************************************************)
(* C9: for every image written, the extension sniffed from its final bytes *)
(* is the one it is externalized under: the extension of its path, the     *)
(* MIME type of its data URI, the mimeType stamped beside its bufferView.  *)
(***************************************************************************)
C9_ExtensionMatchesBytes ==
    \A i \in Indices(images) :
        (chain # <<>> /\ At(chain, i).pc = "done") =>
            LET image == At(images, i)
                extension == getImageExtension(image.source)
            IN  /\ (PathOf("image") = "file" /\ image.uri.t = "str") =>
                    EndsWith(image.uri.s, extension)
                /\ (PathOf("image") = "dataUri" /\ image.uri.t = "str") =>
                    StartsWith(image.uri.s, "data:" \o mimeGetType(extension) \o ";")
                /\ image.bufferView.t # "undef" =>
                    image.mimeType = Str(mimeGetType(extension))

(***************************************************************************)
(* C10: a derived path is never a key the sink already holds: it is        *)
(* name+extension if that is free, else name_k+extension for the smallest  *)
(* free k >= 1.  Two unnamed buffers of an unnamed document get            *)
(* buffer0.bin and buffer1.bin; two images of the same explicit name get   *)
(* name.ext and name_1.ext.                                                *)
(***************************************************************************)
Candidate(w, k) ==
    IF k = 0 THEN w.name \o w.extension
    ELSE w.name \o "_" \o ToString(k) \o w.extension

SmallestFree(w) ==
    \E k \in 0 .. Cardinality(w.before) :
        /\ w.target.s = Candidate(w, k)
        /\ \A j \in 0 .. (k - 1) : Candidate(w, j) \in w.before

UnnamedBuffers ==
    /\ Len(buffers) = 2
    /\ \A k \in DOMAIN buffers : buffers[k].name = Nil /\ buffers[k].resourceId = Nil
    /\ options.name = Nil
    /\ PathOf("buffer") = "file"

SameNameImages ==
    /\ Len(images) = 2
    /\ \A k \in DOMAIN images :
        /\ images[k].name = "a"
        /\ images[k].relativePath = Nil
        /\ images[k].resourceId = Nil
    /\ PathOf("image") = "file"

C10_DerivedPathIsFree ==
    /\ \A k \in DOMAIN written :
        (written[k].via = "sink" /\ written[k].derived) =>
            /\ written[k].target.s \notin written[k].before
            /\ SmallestFree(written[k])
    /\ (Returned /\ UnnamedBuffers) =>
        /\ At(buffers, 0).uri = Str("buffer0.bin")
        /\ At(buffers, 1).uri = Str("buffer1.bin")
    /\ (Returned /\ SameNameImages) =>
        {At(images, 0).uri, At(images, 1).uri} =
            IF written[1].before = {}
            THEN {Str("a.png"), Str("a_1.png")}
            ELSE {Str("a.png"), Str("a_2.png")}

\* The second of two images named alike is written under the first numbered
\* path the sink does not hold.
C10_Witness ==
    /\ Returned
    /\ SameNameImages
    /\ written[1].before = {"a_1.png"}
    /\ At(images, 0).uri = Str("a_2.png")
    /\ At(images, 1).uri = Str("a.png")
    /\ separateResources.files["a_1.png"] = Buf(<<9>>)

(***************************************************************************)
(* C11: a shader written as a separate file without an explicit path is    *)
(* named by its own name, else <programName><VS|FS>, else                  *)
(* <documentName><VS|FS><programIndex>, else <vs|fs><programIndex>; and    *)
(* name resolution yields a name for every such shader.                    *)
(***************************************************************************)
Stage(shader) == IF shader.type = FRAGMENT_SHADER THEN "FS" ELSE "VS"

LowerStage(shader) == IF shader.type = FRAGMENT_SHADER THEN "fs" ELSE "vs"

ChainName(i) ==
    LET shader == At(shaders, i)
        p == Min(ReferencingPrograms(i))
    IN  IF shader.name # Nil THEN shader.name
        ELSE IF At(programs, p).name # Nil THEN At(programs, p).name \o Stage(shader)
        ELSE IF options.name # Nil THEN options.name \o Stage(shader) \o ToString(p)
        ELSE LowerStage(shader) \o ToString(p)

NamedByChain(i) ==
    \E k \in DOMAIN written :
        /\ written[k].target = At(shaders, i).uri
        /\ written[k].extension = ".glsl"
        /\ written[k].name = ChainName(i)

C11_ShaderNameResolved ==
    (options.separateShaders /\ separateResources.defined) =>
        /\ result # Rejected(-1, "shaders")
        /\ Returned =>
            \A i \in Indices(shaders) :
                (At(shaders, i).relativePath = Nil /\ At(shaders, i).resourceId = Nil) =>
                    NamedByChain(i)

(***************************************************************************)
(* C12: with a bufferStorage configured and separateBuffers false, each    *)
(* step of the buffer pass appends the bytes of the next buffer, in index  *)
(* order, to the storage (which ends as its prior content followed by all  *)
(* buffer sources) and changes neither the buffer nor the sink nor the     *)
(* map; with separateBuffers true the storage is never changed and the     *)
(* buffers are written as files.                                           *)
(***************************************************************************)
RECURSIVE Sources(_)
Sources(n) == IF n = 0 THEN <<>> ELSE Sources(n - 1) \o buffers[n].source.bytes

StoredBytes == IF defined(bufferStorage.buffer) THEN bufferStorage.buffer.bytes ELSE <<>>

BufferStep == phase = "buffers" /\ passes' = Append(passes, "buffer")

StorageStep ==
    (BufferStep /\ StoresBuffers) =>
        /\ bufferStorage'.buffer = Buf(StoredBytes \o At(buffers, cursor).source.bytes)
        /\ cursor' = cursor + 1
        /\ UNCHANGED <<buffers, separateResources, writtenResourceMap, bufferViews>>

FileStep ==
    (BufferStep /\ options.separateBuffers) =>
        /\ UNCHANGED bufferStorage
        /\ result' = result =>
            /\ At(buffers', cursor).uri.t = "str"
            /\ At(buffers', cursor).uri.s \in DOMAIN separateResources'.files
            /\ At(buffers', cursor).bufferView = Undef

StorageOnlyThen == bufferStorage' # bufferStorage => (BufferStep /\ StoresBuffers)

StoredInOrder ==
    (phase \in {"buffers", "returned"} /\ StoresBuffers) =>
        /\ Len(StoredBytes) >= Len(Sources(cursor))
        /\ SubSeq(StoredBytes, Len(StoredBytes) - Len(Sources(cursor)) + 1,
                  Len(StoredBytes)) = Sources(cursor)
        /\ \A k \in DOMAIN buffers : buffers[k].uri = Undef /\ buffers[k].bufferView = Undef

EncoderInvoked(i) == At(chain, i).pc \in {"exec", "ktxread"}

PastFirstStage(i) == At(chain, i).pc \in {"exec", "ktxread", "gm", "read", "done"}

C13_EncoderIffNotKtx2 ==
    \A i \in Indices(images) :
        chain # <<>> =>
            /\ EncoderInvoked(i) =>
                (options.encodeBasis /\ At(chain, i).extension # KTX2)
            /\ (options.encodeBasis /\ sniffed[i + 1] # KTX2 /\ PastFirstStage(i)) =>
                (EncoderInvoked(i) \/ At(chain, i).extension = KTX2)
            /\ (options.encodeBasis /\ sniffed[i + 1] = KTX2) =>
                /\ ~EncoderInvoked(i)
                /\ At(chain, i).pc = "done" =>
                    At(images, i).source = Buf(Magic(KTX2) \o <<7>>)

(***************************************************************************)
(* C14: the JPEG re-encoder is never invoked when encodeBasis is set, and  *)
(* in one chain at most one of the two encoders runs: an encoder starts    *)
(* only as the step that follows the first stage, which a chain leaves     *)
(* once.                                                                   *)
(***************************************************************************)
ReencoderInvoked(i) == At(chain, i).pc = "gm"

NoJpegWithBasis ==
    \A i \in Indices(images) :
        (chain # <<>> /\ ReencoderInvoked(i)) =>
            (~options.encodeBasis /\ options.jpegCompressionRatio)

EncoderStartsOnce ==
    \A i \in Indices(images) :
        (chain # <<>> /\ At(chain', i).pc # At(chain, i).pc) =>
            /\ At(chain', i).pc \in {"gm", "exec"} => At(chain, i).pc \in {"decode", "write"}
            /\ At(chain', i).pc \in {"decode", "write"} => At(chain, i).pc = "idle"

C14_OneEncoder == []NoJpegWithBasis /\ [][EncoderStartsOnce]_vars

\* Both options set: a PNG came out of its chain as KTX2.
C14_Witness ==
    /\ options.encodeBasis
    /\ options.jpegCompressionRatio
    /\ \E i \in Indices(images) :
        /\ sniffed[i + 1] = PNG
        /\ At(chain, i).pc = "done"
        /\ getImageExtension(At(images, i).source) = KTX2

(***************************************************************************)
(* C15: when an image is handed to writeResource, none of the temp files   *)
(* its chain created still exists.                                         *)
(***************************************************************************)
TempFiles(i) == {extension \in ImageExtensions : At(tmp, i)[extension].t # "undef"}

C15_NoTempFileLeft ==
    \A i \in Indices(images) : i \in HandedImages => TempFiles(i) = {}

(***************************************************************************)
(* C16: writtenResourceMap starts empty and only grows: an entry is never  *)
(* overwritten or removed, an entry is only added for the resourceId of a  *)
(* resource written through the bufferView path or the separate-file path, *)
(* and a step through the data-URI path or into bufferStorage neither      *)
(* reads nor changes the map.                                              *)
(***************************************************************************)
StartsEmpty == phase = "called" => DOMAIN writtenResourceMap = {}

EntriesKept ==
    \A r \in DOMAIN writtenResourceMap :
        /\ r \in DOMAIN writtenResourceMap'
        /\ writtenResourceMap'[r] = writtenResourceMap[r]

EntryAddedByWrite ==
    DOMAIN writtenResourceMap' # DOMAIN writtenResourceMap =>
        \E r \in DOMAIN writtenResourceMap' \ DOMAIN writtenResourceMap :
            /\ r # Nil
            /\ DOMAIN writtenResourceMap' = DOMAIN writtenResourceMap \cup {r}
            /\ \E x \in Resources' :
                /\ x.object.resourceId = r
                /\ \/ /\ PathOf(x.kind) = "bufferView"
                      /\ x.object.bufferView = writtenResourceMap'[r]
                   \/ /\ PathOf(x.kind) = "file"
                      /\ x.object.uri = writtenResourceMap'[r]

\* The resource a step externalizes, as the step leaves it.
Stepped ==
    IF handed' # handed
    THEN {[kind |-> "image", object |-> At(images', handed'[Len(handed')].image)]}
    ELSE IF passes' = Append(passes, "shader")
    THEN {[kind |-> "shader", object |-> At(shaders', cursor)]}
    ELSE IF passes' = Append(passes, "buffer")
    THEN {[kind |-> "buffer", object |-> At(buffers', cursor)]}
    ELSE {}

MapUntouchedByDataUri ==
    \A x \in Stepped :
        /\ PathOf(x.kind) \in {"dataUri", "storage"} => UNCHANGED writtenResourceMap
        /\ PathOf(x.kind) = "dataUri" =>
            (x.object.uri.t = "str" /\ StartsWith(x.object.uri.s, "data:"))

C16_MapAppendOnly ==
    /\ []StartsEmpty
    /\ [][EntriesKept /\ EntryAddedByWrite /\ MapUntouchedByDataUri]_vars

\* A shader written as a data URI although the map holds the path of the
\* image that shares its resourceId.
C16_Witness ==
    /\ Returned
    /\ "r" \in DOMAIN writtenResourceMap
    /\ writtenResourceMap["r"] = Str("dir/t.png")
    /\ \E i \in Indices(shaders) :
        /\ At(shaders, i).resourceId = "r"
        /\ PathOf("shader") = "dataUri"
        /\ StartsWith(At(shaders, i).uri.s, "data:text/plain;base64,")

(***************************************************************************)
(* C17: the uri of each image written as a separate file under a derived   *)
(* path, and the keys of the sink, are the same in every completion order  *)
(* of the image chains: they are the ones of the run in which the chains   *)
(* complete in index order.                                                *)
(***************************************************************************)
\* The keys the sink held when writeResources was called.
KeysAtCall == IF written = <<>> THEN {} ELSE written[1].before

Held(keys) == [path \in keys |-> TRUE]

RECURSIVE InOrderKeys(_)
InOrderKeys(n) ==
    IF n = 0 THEN KeysAtCall
    ELSE InOrderKeys(n - 1)
         \cup {FreePath(getName(images[n], n - 1, sniffed[n]).name, sniffed[n],
                        Held(InOrderKeys(n - 1)))}

InOrderPath(i) ==
    FreePath(getName(At(images, i), i, sniffed[i + 1]).name, sniffed[i + 1],
             Held(InOrderKeys(i)))

DerivedImagePaths ==
    /\ PathOf("image") = "file"
    /\ separateResources.defined
    /\ \A k \in DOMAIN images : images[k].relativePath = Nil /\ images[k].resourceId = Nil
    /\ ~options.encodeBasis /\ ~options.jpegCompressionRatio /\ ~options.decodeWebP

C17_OrderIndependentPaths ==
    (Returned /\ DerivedImagePaths) =>
        /\ \A i \in Indices(images) : At(images, i).uri = Str(InOrderPath(i))
        /\ \A i \in Indices(images) :
            separateResources.files[InOrderPath(i)] = At(images, i).source

(***************************************************************************)
(* C18: when every callback eventually fires and the body of               *)
(* writeResources runs on, every image chain eventually settles and        *)
(* writeResources eventually resolves or rejects.                          *)
(***************************************************************************)
\* Images of every format under every combination of the transcode options,
\* embedded as bufferViews, beside the shaders.
SettlingInputs ==
    {Input(Options({}, transcode, Nil), EmptySink, NoStorage,
           Images(n, format, Nil, "unnamed", 0),
           Shaders(m, ShaderBytes, FRAGMENT_SHADER, Nil, "s", 0),
           <<>>, <<>>, 0) :
        transcode \in TranscodeFlags, n \in 1 .. MaxImages,
        format \in ImageExtensions, m \in 0 .. MaxShaders}

\* Every outstanding callback fires and every runnable step is taken.
FairSpec ==
    /\ \E in \in SettlingInputs : Start(in)
    /\ [][Next]_vars
    /\ WF_vars(Next)

ChainsSettled ==
    \A i \in Indices(images) : chain # <<>> /\ At(chain, i).settled.state # "pending"

C18_EventuallySettles == <>ChainsSettled /\ <>(result.state # "pending")

(***************************************************************************)
(* C19: no buffer is ever given a bufferView and the buffer pass never     *)
(* appends to the buffer pool: a buffer that is neither separated nor      *)
(* stored is written as a data URI whatever dataUris says, a separated     *)
(* buffer gets the path of a file (the one put in the sink for it, or the  *)
(* entry of its resourceId).                                               *)
(***************************************************************************)
NoBufferView == \A k \in DOMAIN buffers : buffers[k].bufferView = Undef

BufferDataUri(buffer) ==
    Str("data:" \o mimeGetType(".bin") \o ";base64," \o Base64(buffer.source.bytes))

BufferPath ==
    (BufferStep /\ result' = result) =>
        LET before == At(buffers, cursor)
            after == At(buffers', cursor)
        IN  /\ PathOf("buffer") = "dataUri" => after.uri = BufferDataUri(before)
            /\ PathOf("buffer") = "file" =>
                IF Reused(before.resourceId, writtenResourceMap)
                THEN after.uri = writtenResourceMap[before.resourceId]
                ELSE /\ after.uri.t = "str"
                     /\ ~StartsWith(after.uri.s, "data:")
                     /\ after.uri.s \in DOMAIN separateResources'.files
                     /\ separateResources'.files[after.uri.s] = before.source

PoolKept == BufferStep => UNCHANGED bufferViews

C19_BufferNeverBufferView == []NoBufferView /\ [][BufferPath /\ PoolKept]_vars

\* Two buffers written as data URIs although dataUris is false.
C19_Witness ==
    /\ Returned
    /\ ~options.dataUris
    /\ PathOf("buffer") = "dataUri"
    /\ Len(buffers) = 2
    /\ At(buffers, 0).uri = Str("data:application/octet-stream;base64,AQ==")
    /\ At(buffers, 1).uri = BufferDataUri(At(buffers, 1))

(***************************************************************************)
(* C20: no step changes a texture's source or removes an entry its         *)
(* extensions object already holds, and with encodeBasis unset no step     *)
(* changes a texture at all.                                               *)
(***************************************************************************)
TextureFrame ==
    /\ DOMAIN textures' = DOMAIN textures
    /\ \A k \in DOMAIN textures :
        /\ textures'[k].source = textures[k].source
        /\ textures[k].extensions.names \subseteq textures'[k].extensions.names
    /\ ~options.encodeBasis => UNCHANGED textures

C20_OtherExtensionsKept == [][TextureFrame]_vars

====
